---- MODULE Spec2Model ----
(***************************************************************************)
(* Model of trax/layers/metrics.py: the metric layers (CrossEntropy, L2,   *)
(* Accuracy), the masking helpers (WeightMask, WeightedMean, one_hot) and  *)
(* the combinator programs built from them (CountWeights, MaskedScalar and *)
(* the *Scalar constructors), run on a data stack one sub-layer at a time. *)
(*                                                                         *)
(* Tensors are records [shape, dtype, data]: data maps every 0-based index *)
(* tuple of the shape to a value.  bool tensors hold TRUE/FALSE; int and   *)
(* float tensors hold exact rationals [num, den] in lowest terms (den = 0  *)
(* is the result of a division by zero: 0/0 nan, 1/0 inf, -1/0 -inf).      *)
(* Floating-point rounding is not modelled; tensors fed to the layers hold *)
(* finite values.                                                          *)
(***************************************************************************)
EXTENDS Integers, Sequences, FiniteSets, TLC

VARIABLES layer_name, mask_id, has_weights, program, pc, stack, stack0

vars == <<layer_name, mask_id, has_weights, program, pc, stack, stack0>>

(***************************************************************************)
(* Bounds of the model.                                                    *)
(***************************************************************************)
\* Largest number of positions (length of targets) fed to a layer.
MaxLen == 2

\* Widths of the last axis of prediction (n_categories of one_hot).
CategoryCounts == {1, 2}
\* Values of one-per-position predictions, rows of per-category predictions,
\* values of targets and of provided weights.
PredVals == {-2, -1}
PredRows == {<<-2>>, <<-1>>, <<-2, -1>>, <<-1, -2>>}
TargetVals == {0, 1}
WeightVals == {0, 2}

(***************************************************************************)
(* Exact arithmetic on scalars.                                            *)
(***************************************************************************)
Abs(n) == IF n < 0 THEN -n ELSE n

Sign(n) == IF n < 0 THEN -1 ELSE IF n > 0 THEN 1 ELSE 0

RECURSIVE GCD(_, _)
GCD(a, b) == IF b = 0 THEN a ELSE GCD(b, a % b)

\* The scalar n/d in lowest terms with a non-negative denominator.
Norm(n, d) ==
  IF d = 0 THEN [num |-> Sign(n), den |-> 0]
  ELSE LET g == GCD(Abs(n), Abs(d))
       IN  [num |-> (Sign(d) * n) \div g, den |-> Abs(d) \div g]

R(n) == [num |-> n, den |-> 1]

RMul(a, b) == Norm(a.num * b.num, a.den * b.den)

RAdd(a, b) == Norm(a.num * b.den + b.num * a.den, a.den * b.den)

RSub(a, b) == Norm(a.num * b.den - b.num * a.den, a.den * b.den)

\* True division a / b.
RDiv(a, b) == Norm(a.num * b.den, a.den * b.num)

\* a < b, for finite a and b.
RLess(a, b) == a.num * b.den < b.num * a.den

(***************************************************************************)
(* The array primitives the file uses (trax.math.numpy).                   *)
(***************************************************************************)
\* All 0-based index tuples of a shape of rank 0, 1 or 2.
Indices(shape) ==
  IF Len(shape) = 0 THEN {<<>>}
  ELSE IF Len(shape) = 1 THEN {<<i>> : i \in 0..(shape[1] - 1)}
  ELSE {<<i, j>> : i \in 0..(shape[1] - 1), j \in 0..(shape[2] - 1)}

Tensor(shape, dtype, data) == [shape |-> shape, dtype |-> dtype, data |-> data]

\* The value at idx as a number: astype(float) of a bool is 1 for True, 0 for False.
Num(t, idx) ==
  IF t.dtype = "bool" THEN (IF t.data[idx] THEN R(1) ELSE R(0)) ELSE t.data[idx]

\* Type promotion of a binary arithmetic operation.
Promote(a, b) ==
  IF a.dtype = "float" \/ b.dtype = "float" THEN "float" ELSE "int"

Max(a, b) == IF a > b THEN a ELSE b

\* The size of axis k, counted from the last axis (k = 0), 1 where the shape has no such axis.
DimFromEnd(shape, k) == IF k < Len(shape) THEN shape[Len(shape) - k] ELSE 1

\* Broadcasting aligns shapes on their last axes: the result takes the larger size of each.
BroadcastShape(s1, s2) ==
  LET r == Max(Len(s1), Len(s2))
  IN  [k \in 1..r |-> Max(DimFromEnd(s1, r - k), DimFromEnd(s2, r - k))]

\* The index of the operand of shape s that the result index idx reads.
Proj(idx, s) ==
  LET off == Len(idx) - Len(s)
  IN  [k \in 1..Len(s) |-> IF s[k] = 1 THEN 0 ELSE idx[k + off]]

\* a * b, element-wise with broadcasting.
np_multiply(a, b) ==
  LET shape == BroadcastShape(a.shape, b.shape)
  IN  Tensor(shape, Promote(a, b),
             [idx \in Indices(shape) |->
                RMul(Num(a, Proj(idx, a.shape)), Num(b, Proj(idx, b.shape)))])

\* a - b, element-wise with broadcasting.
np_subtract(a, b) ==
  LET shape == BroadcastShape(a.shape, b.shape)
  IN  Tensor(shape, Promote(a, b),
             [idx \in Indices(shape) |->
                RSub(Num(a, Proj(idx, a.shape)), Num(b, Proj(idx, b.shape)))])

np_square(a) == Tensor(a.shape, a.dtype, [idx \in DOMAIN a.data |-> RMul(Num(a, idx), Num(a, idx))])

RECURSIVE SumOver(_, _)
SumOver(f, S) ==
  IF S = {} THEN R(0)
  ELSE LET e == CHOOSE e \in S : TRUE
       IN  RAdd(f[e], SumOver(f, S \ {e}))

NumData(t) == [idx \in DOMAIN t.data |-> Num(t, idx)]

SumDtype(t) == IF t.dtype = "bool" THEN "int" ELSE t.dtype

\* np.sum(t): the sum of all entries, a rank-0 tensor.
np_sum_all(t) ==
  Tensor(<<>>, SumDtype(t), [idx \in {<<>>} |-> SumOver(NumData(t), DOMAIN t.data)])

\* np.sum(t, axis=-1): the last axis is summed away.
np_sum_last(t) ==
  LET r     == Len(t.shape)
      shape == SubSeq(t.shape, 1, r - 1)
  IN  Tensor(shape, SumDtype(t),
             [idx \in Indices(shape) |->
                SumOver(NumData(t), {Append(idx, j) : j \in 0..(t.shape[r] - 1)})])

\* np.equal(a, b), element-wise with broadcasting: a bool tensor.
np_equal(a, b) ==
  LET shape == BroadcastShape(a.shape, b.shape)
  IN  Tensor(shape, "bool",
             [idx \in Indices(shape) |->
                Num(a, Proj(idx, a.shape)) = Num(b, Proj(idx, b.shape))])

\* A Python scalar used as an operand: a rank-0 tensor.
Scalar(v, dtype) == Tensor(<<>>, dtype, [idx \in {<<>>} |-> R(v)])

\* t[..., np.newaxis]: a new last axis of size 1.
np_newaxis_last(t) ==
  Tensor(Append(t.shape, 1), t.dtype,
         [idx \in Indices(Append(t.shape, 1)) |-> t.data[SubSeq(idx, 1, Len(idx) - 1)]])

np_divide(a, b) ==
  LET shape == BroadcastShape(a.shape, b.shape)
  IN  Tensor(shape, "float",
             [idx \in Indices(shape) |->
                RDiv(Num(a, Proj(idx, a.shape)), Num(b, Proj(idx, b.shape)))])

np_ones_like(t) == Tensor(t.shape, t.dtype, [idx \in DOMAIN t.data |-> R(1)])

astype_float32(t) == Tensor(t.shape, "float", NumData(t))

\* np.arange(n): the integers 0 .. n-1.
np_arange(n) == Tensor(<<n>>, "int", [idx \in Indices(<<n>>) |-> R(idx[1])])

\* np.argmax(t, axis=-1): the first index of the largest entry along the last axis.
np_argmax_last(t) ==
  LET r     == Len(t.shape)
      shape == SubSeq(t.shape, 1, r - 1)
      last  == 0..(t.shape[r] - 1)
      Best(idx) == CHOOSE j \in last :
                     /\ \A k \in last : ~RLess(Num(t, Append(idx, j)), Num(t, Append(idx, k)))
                     /\ \A k \in 0..(j - 1) : RLess(Num(t, Append(idx, k)), Num(t, Append(idx, j)))
  IN  Tensor(shape, "int", [idx \in Indices(shape) |-> R(Best(idx))])

(***************************************************************************)
(* The layers of metrics.py, as functions of their input tensors.          *)
(***************************************************************************)
\* one_hot counting the categories from 1: compares with np.arange(n_categories) + 1.
one_hot_FromOne(x, n_categories) ==
  LET indices_less_than_n == np_arange(n_categories)
      shifted == Tensor(indices_less_than_n.shape, "int",
                        [idx \in DOMAIN indices_less_than_n.data |->
                           RAdd(indices_less_than_n.data[idx], R(1))])
  IN  astype_float32(np_equal(np_newaxis_last(x), shifted))

\* one_hot(x, n_categories): x[..., np.newaxis] == np.arange(n_categories), as float32.
one_hot(x, n_categories) ==
  LET indices_less_than_n == np_arange(n_categories)
  IN  astype_float32(np_equal(np_newaxis_last(x), indices_less_than_n))

LastDim(t) == t.shape[Len(t.shape)]

CrossEntropy(prediction, target) ==
  np_sum_last(np_multiply(prediction, one_hot(target, LastDim(prediction))))

L2(prediction, target) ==
  np_sum_last(np_square(np_subtract(prediction, target)))

Accuracy(prediction, target) ==
  LET predicted_class == np_argmax_last(prediction)
  IN  np_equal(predicted_class, target)

\* mask_id is [none |-> TRUE] for None, else [none |-> FALSE, id |-> the id].
None == [none |-> TRUE, id |-> 0]

Id(m) == [none |-> FALSE, id |-> m]

\* WeightMask without the "1.0 -": 1 where target equals mask_id.
WeightMask_Inverted(target, m) ==
  IF m.none THEN np_ones_like(target)
  ELSE astype_float32(np_equal(target, Scalar(m.id, "int")))

WeightMask(target, m) ==
  IF m.none THEN np_ones_like(target)
  ELSE np_subtract(Scalar(1, "float"), astype_float32(np_equal(target, Scalar(m.id, "int"))))

\* WeightedMean dividing by the number of weights instead of their sum.
WeightedMean_ByCount(metric, weights) ==
  LET weights_count == np_sum_all(np_ones_like(astype_float32(weights)))
  IN  np_divide(np_sum_all(np_multiply(metric, weights)), weights_count)

WeightedMean(metric, weights) ==
  LET weights_sum == np_sum_all(weights)
  IN  np_divide(np_sum_all(np_multiply(metric, weights)), weights_sum)

\* base.Fn(lambda x: x * -1.0)
Negate(x) == np_multiply(x, Scalar(-1, "float"))

(***************************************************************************)
(* Layer graphs.  A layer is [kind, subs, mask]: subs are the sub-layers   *)
(* of a combinator, mask the mask_id of a WeightMask.                      *)
(***************************************************************************)
Layer(kind, subs, m) == [kind |-> kind, subs |-> subs, mask |-> m]

Prim(kind) == Layer(kind, <<>>, None)

cb_Serial(subs) == Layer("Serial", subs, None)

cb_Parallel(subs) == Layer("Parallel", subs, None)

\* The [] given to cb.Parallel: passes one item through unchanged.
PassThrough == cb_Serial(<<>>)

cb_Dup == Prim("Dup")

cb_Drop == Prim("Drop")

cb_Multiply == Prim("Multiply")

core_Sum == Prim("Sum")

NegateFn == Prim("Fn")

WeightMaskLayer(m) == Layer("WeightMask", <<>>, m)

WeightedMeanLayer == Prim("WeightedMean")

RECURSIVE n_in(_), n_out(_), SerialArity(_, _, _)

\* Serial's arity: the deepest the sub-layers reach into the stack, and what is left of it.
SerialArity(subs, running_max, running_total) ==
  IF subs = <<>> THEN <<running_max, running_max - running_total>>
  ELSE LET total == running_total + n_in(Head(subs))
       IN  SerialArity(Tail(subs), Max(running_max, total), total - n_out(Head(subs)))

RECURSIVE SumArity(_, _)
SumArity(subs, out) ==
  IF subs = <<>> THEN 0
  ELSE (IF out THEN n_out(Head(subs)) ELSE n_in(Head(subs))) + SumArity(Tail(subs), out)

\* The number of stack items a layer consumes.
n_in(layer) ==
  CASE layer.kind = "Serial"   -> IF layer.subs = <<>> THEN 1 ELSE SerialArity(layer.subs, 0, 0)[1]
    [] layer.kind = "Parallel" -> SumArity(layer.subs, FALSE)
    [] layer.kind \in {"CrossEntropy", "L2", "Accuracy", "WeightedMean", "Multiply"} -> 2
    [] OTHER -> 1

\* The number of stack items a layer produces.
n_out(layer) ==
  CASE layer.kind = "Serial"   -> IF layer.subs = <<>> THEN 1 ELSE SerialArity(layer.subs, 0, 0)[2]
    [] layer.kind = "Parallel" -> SumArity(layer.subs, TRUE)
    [] layer.kind = "Dup"      -> 2
    [] layer.kind = "Drop"     -> 0
    [] OTHER -> 1

RECURSIVE Apply(_, _), RunSerial(_, _), RunParallel(_, _)

\* A layer applied to the stack: it replaces the top n_in items by its n_out outputs.
ApplyToStack(layer, s) ==
  Apply(layer, SubSeq(s, 1, n_in(layer))) \o SubSeq(s, n_in(layer) + 1, Len(s))

\* Serial: the sub-layers one after the other on the same stack.
RunSerial(subs, s) ==
  IF subs = <<>> THEN s ELSE RunSerial(Tail(subs), ApplyToStack(Head(subs), s))

\* Parallel: each sub-layer on its own consecutive span of the inputs, outputs concatenated.
RunParallel(subs, xs) ==
  IF subs = <<>> THEN <<>>
  ELSE Apply(Head(subs), SubSeq(xs, 1, n_in(Head(subs))))
         \o RunParallel(Tail(subs), SubSeq(xs, n_in(Head(subs)) + 1, Len(xs)))

\* The outputs of a layer on exactly its n_in inputs xs.
Apply(layer, xs) ==
  CASE layer.kind = "Serial"       -> RunSerial(layer.subs, xs)
    [] layer.kind = "Parallel"     -> RunParallel(layer.subs, xs)
    [] layer.kind = "Dup"          -> <<xs[1], xs[1]>>
    [] layer.kind = "Drop"         -> <<>>
    [] layer.kind = "Multiply"     -> <<np_multiply(xs[1], xs[2])>>
    [] layer.kind = "Sum"          -> <<np_sum_all(xs[1])>>
    [] layer.kind = "Fn"           -> <<Negate(xs[1])>>
    [] layer.kind = "WeightMask"   -> <<WeightMask(xs[1], layer.mask)>>
    [] layer.kind = "WeightedMean" -> <<WeightedMean(xs[1], xs[2])>>
    [] layer.kind = "CrossEntropy" -> <<CrossEntropy(xs[1], xs[2])>>
    [] layer.kind = "L2"           -> <<L2(xs[1], xs[2])>>
    [] layer.kind = "Accuracy"     -> <<Accuracy(xs[1], xs[2])>>

RECURSIVE Flatten(_), FlattenAll(_)

FlattenAll(subs) ==
  IF subs = <<>> THEN <<>> ELSE Flatten(Head(subs)) \o FlattenAll(Tail(subs))

\* The sub-layers a Serial runs, in order, nested Serials opened up.
Flatten(layer) ==
  IF layer.kind = "Serial" THEN FlattenAll(layer.subs) ELSE <<layer>>

(***************************************************************************)
(* The layer constructors of metrics.py.                                   *)
(***************************************************************************)
\* CountWeights that never multiplies by the provided weights.
CountWeights_NoMultiply(m, hw) ==
  cb_Serial(<<cb_Drop, WeightMaskLayer(m), core_Sum>>)

CountWeights(m, hw) ==
  IF hw
  THEN cb_Serial(<<cb_Drop, WeightMaskLayer(m), cb_Multiply, core_Sum>>)
  ELSE cb_Serial(<<cb_Drop, WeightMaskLayer(m), core_Sum>>)

\* The first Parallel without its Dup: the targets are passed on once.
DupTargetsLayer_NoDup == cb_Parallel(<<PassThrough, PassThrough>>)

DupTargetsLayer == cb_Parallel(<<PassThrough, cb_Dup>>)

MetricAndMaskLayer(metric_layer, m) == cb_Parallel(<<metric_layer, WeightMaskLayer(m)>>)

\* The Multiply put on the first two items: the mask multiplies the metric, not the weights.
MultiplyWeightsLayer_OnMetric == cb_Parallel(<<cb_Multiply, PassThrough>>)

MultiplyWeightsLayer == cb_Parallel(<<PassThrough, cb_Multiply>>)

MaskedScalar(metric_layer, m, hw) ==
  LET metric_and_mask == <<DupTargetsLayer, MetricAndMaskLayer(metric_layer, m)>>
  IN  IF ~hw
      THEN cb_Serial(metric_and_mask \o <<WeightedMeanLayer>>)
      ELSE cb_Serial(metric_and_mask \o <<MultiplyWeightsLayer, WeightedMeanLayer>>)

CrossEntropyScalar(m, hw) == MaskedScalar(Prim("CrossEntropy"), m, hw)

NegLogPerplexityScalar(m, hw) == CrossEntropyScalar(m, hw)

\* CrossEntropyLossScalar without the multiplication by -1.
CrossEntropyLossScalar_NoNegate(m, hw) == cb_Serial(<<CrossEntropyScalar(m, hw)>>)

CrossEntropyLossScalar(m, hw) == cb_Serial(<<CrossEntropyScalar(m, hw), NegateFn>>)

L2Scalar(m, hw) == MaskedScalar(Prim("L2"), m, hw)

L2LossScalar(m, hw) == L2Scalar(m, hw)

AccuracyScalar(m, hw) == MaskedScalar(Prim("Accuracy"), m, hw)

MaskedScalarNames ==
  {"CrossEntropyScalar", "NegLogPerplexityScalar", "CrossEntropyLossScalar",
   "L2Scalar", "L2LossScalar", "AccuracyScalar"}

LayerNames == MaskedScalarNames \cup {"CountWeights"}

Build(name, m, hw) ==
  CASE name = "CountWeights"            -> CountWeights(m, hw)
    [] name = "CrossEntropyScalar"      -> CrossEntropyScalar(m, hw)
    [] name = "NegLogPerplexityScalar"  -> NegLogPerplexityScalar(m, hw)
    [] name = "CrossEntropyLossScalar"  -> CrossEntropyLossScalar(m, hw)
    [] name = "L2Scalar"                -> L2Scalar(m, hw)
    [] name = "L2LossScalar"            -> L2LossScalar(m, hw)
    [] name = "AccuracyScalar"          -> AccuracyScalar(m, hw)

(***************************************************************************)
(* Inputs.                                                                 *)
(***************************************************************************)
TensorsOf(shape, dtype, Vals) ==
  {Tensor(shape, dtype, d) : d \in [Indices(shape) -> {R(v) : v \in Vals}]}

\* The rank-2 float tensors of n rows drawn from the rows of width k.
RowTensors(n, k) ==
  {Tensor(<<n, k>>, "float", [idx \in Indices(<<n, k>>) |-> R(rows[idx[1]][idx[2] + 1])]) :
     rows \in [0..(n - 1) -> {r \in PredRows : Len(r) = k}]}

Lengths == 1..MaxLen

MaskIds == {None} \cup {Id(m) : m \in TargetVals}

\* Model outputs the metric layers read: log-probabilities per category, or one value per position.
Predictions(name, n) ==
  IF name \in {"L2Scalar", "L2LossScalar", "CountWeights"}
  THEN TensorsOf(<<n>>, "float", PredVals)
  ELSE UNION {RowTensors(n, k) : k \in CategoryCounts}

Targets(n) == TensorsOf(<<n>>, "int", TargetVals)

Weights(n) == TensorsOf(<<n>>, "float", WeightVals)

\* Whatever the caller keeps on the stack below the layer's inputs.
Bystander == Scalar(7, "int")

Below == <<Bystander>>

(***************************************************************************)
(* The run of one layer on one stack, one sub-layer per step.              *)
(***************************************************************************)
Init ==
  /\ layer_name \in LayerNames
  /\ mask_id \in MaskIds
  /\ has_weights \in BOOLEAN
  /\ program = Flatten(Build(layer_name, mask_id, has_weights))
  /\ pc = 1
  /\ \E n \in Lengths :
       \E inputs \in Predictions(layer_name, n), targets \in Targets(n) :
         IF has_weights
         THEN \E weights \in Weights(n) : stack = <<inputs, targets, weights>> \o Below
         ELSE stack = <<inputs, targets>> \o Below
  /\ stack0 = stack

Running == pc <= Len(program)

\* The sub-layer at pc is this layer, and the stack holds its inputs.
Ready(layer) ==
  /\ Running
  /\ program[pc] = layer
  /\ Len(stack) >= n_in(layer)

\* Parallel([], Dup()): the targets are duplicated under the inputs.
DupTargets ==
  /\ Ready(DupTargetsLayer)
  /\ stack' = ApplyToStack(DupTargetsLayer, stack)
  /\ pc' = pc + 1
  /\ UNCHANGED <<layer_name, mask_id, has_weights, program, stack0>>

\* Parallel(metric_layer, WeightMask(mask_id)): (inputs, targets, targets) --> (metric, mask).
MetricAndMask ==
  /\ \E metric \in {"CrossEntropy", "L2", "Accuracy"} :
       /\ Ready(MetricAndMaskLayer(Prim(metric), mask_id))
       /\ stack' = ApplyToStack(MetricAndMaskLayer(Prim(metric), mask_id), stack)
  /\ pc' = pc + 1
  /\ UNCHANGED <<layer_name, mask_id, has_weights, program, stack0>>

\* Parallel([], Multiply()) of MaskedScalar with has_weights.
MultiplyWeights ==
  /\ Ready(MultiplyWeightsLayer)
  /\ stack' = ApplyToStack(MultiplyWeightsLayer, stack)
  /\ pc' = pc + 1
  /\ UNCHANGED <<layer_name, mask_id, has_weights, program, stack0>>

TakeWeightedMean ==
  /\ Ready(WeightedMeanLayer)
  /\ stack' = ApplyToStack(WeightedMeanLayer, stack)
  /\ pc' = pc + 1
  /\ UNCHANGED <<layer_name, mask_id, has_weights, program, stack0>>

\* base.Fn(lambda x: x * -1.0) of CrossEntropyLossScalar.
NegateScalar ==
  /\ Ready(NegateFn)
  /\ stack' = ApplyToStack(NegateFn, stack)
  /\ pc' = pc + 1
  /\ UNCHANGED <<layer_name, mask_id, has_weights, program, stack0>>

\* Drop() of CountWeights.
DropInputs ==
  /\ Ready(cb_Drop)
  /\ stack' = ApplyToStack(cb_Drop, stack)
  /\ pc' = pc + 1
  /\ UNCHANGED <<layer_name, mask_id, has_weights, program, stack0>>

\* WeightMask(mask_id) of CountWeights.
MaskTargets ==
  /\ Ready(WeightMaskLayer(mask_id))
  /\ stack' = ApplyToStack(WeightMaskLayer(mask_id), stack)
  /\ pc' = pc + 1
  /\ UNCHANGED <<layer_name, mask_id, has_weights, program, stack0>>

\* Multiply() of CountWeights with has_weights.
MultiplyMask ==
  /\ Ready(cb_Multiply)
  /\ stack' = ApplyToStack(cb_Multiply, stack)
  /\ pc' = pc + 1
  /\ UNCHANGED <<layer_name, mask_id, has_weights, program, stack0>>

\* Sum(axis=None) of CountWeights.
SumWeights ==
  /\ Ready(core_Sum)
  /\ stack' = ApplyToStack(core_Sum, stack)
  /\ pc' = pc + 1
  /\ UNCHANGED <<layer_name, mask_id, has_weights, program, stack0>>

Next ==
  \/ DupTargets
  \/ MetricAndMask
  \/ MultiplyWeights
  \/ TakeWeightedMean
  \/ NegateScalar
  \/ DropInputs
  \/ MaskTargets
  \/ MultiplyMask
  \/ SumWeights

Spec == Init /\ [][Next]_vars

(***************************************************************************)
(* What a run was given, and what the properties are stated in.            *)
(***************************************************************************)
Done == pc > Len(program)

Inputs0 == stack0[1]

Targets0 == stack0[2]

Weights0 == stack0[3]

\* The layer's own arguments, without what lies below them.
Args0 == SubSeq(stack0, 1, IF has_weights THEN 3 ELSE 2)

Positions == DOMAIN Targets0.data

IsMasked(i) == ~mask_id.none /\ Targets0.data[i] = R(mask_id.id)

Unmasked == {i \in Positions : ~IsMasked(i)}

Masked == {i \in Positions : IsMasked(i)}

MetricLayerOf(name) ==
  IF name \in {"L2Scalar", "L2LossScalar"} THEN Prim("L2")
  ELSE IF name = "AccuracyScalar" THEN Prim("Accuracy")
  ELSE Prim("CrossEntropy")

\* The tensor metric_layer gives on (inputs, targets).
Metric0 == Apply(MetricLayerOf(layer_name), <<Inputs0, Targets0>>)[1]

\* The metric value that position i of targets meets in the weighted mean.
MetricAt(i) == Num(Metric0, Proj(i, Metric0.shape))

PerPosition == Metric0.shape = Targets0.shape

ScalarOf(t) == t.data[<<>>]

\* The position of the program right after WeightedMean has run.
AfterMean == IF has_weights THEN 5 ELSE 4

IsMaskedScalarRun == layer_name \in MaskedScalarNames

IsCrossEntropyRun ==
  layer_name \in {"CrossEntropyScalar", "NegLogPerplexityScalar", "CrossEntropyLossScalar"}

\* Values tried in place of a masked position's metric value or weight.
OtherVals == {R(-3), R(0), R(5)}

(***************************************************************************)
(* C1.  MaskedScalar(metric_layer, mask_id=m, has_weights=False) with m    *)
(* not None and some target different from m: the result is the sum of the *)
(* metric values at the positions whose target differs from m, divided by  *)
(* the number of those positions, and putting any other value in place of  *)
(* the metric value of a position whose target equals m gives the same     *)
(* result.                                                                 *)
(***************************************************************************)
C1_Case ==
  /\ IsMaskedScalarRun
  /\ ~has_weights
  /\ ~mask_id.none
  /\ Unmasked # {}
  /\ pc = AfterMean

C1_MaskedMean ==
  C1_Case =>
    LET metric == Metric0
        at     == [i \in Positions |-> Num(metric, Proj(i, metric.shape))]
        mask   == WeightMask(Targets0, mask_id)
    IN  /\ stack[1].shape = <<>>
        /\ ScalarOf(stack[1]) = RDiv(SumOver(at, Unmasked), R(Cardinality(Unmasked)))
        /\ metric.shape = Targets0.shape =>
             \A p \in Masked, v \in OtherVals :
               WeightedMean(Tensor(metric.shape, "float", [at EXCEPT ![p] = v]), mask) = stack[1]

\* A run where a masked and an unmasked position carry different metric values.
C1_Witness ==
  /\ C1_Case
  /\ PerPosition
  /\ \E p \in Masked, q \in Unmasked : MetricAt(p) # MetricAt(q)

(***************************************************************************)
(* C2.  WeightMask(mask_id=m) gives a tensor of the shape of target whose  *)
(* entries are all 0 or 1: 0 exactly where target equals m, 1 elsewhere;   *)
(* with mask_id None every entry is 1.                                     *)
(***************************************************************************)
\* Right after WeightMask has run, the mask is this item of the stack.
MaskJustMade == pc = 3

MaskOnStack == IF layer_name = "CountWeights" THEN stack[1] ELSE stack[2]

C2_MaskIsZeroOne ==
  MaskJustMade =>
    /\ MaskOnStack.shape = Targets0.shape
    /\ DOMAIN MaskOnStack.data = Positions
    /\ \A i \in Positions :
         /\ Num(MaskOnStack, i) \in {R(0), R(1)}
         /\ Num(MaskOnStack, i) = R(0) <=> (~mask_id.none /\ Targets0.data[i] = R(mask_id.id))
    /\ mask_id.none => \A i \in Positions : Num(MaskOnStack, i) = R(1)

\* A mask with both a 0 and a 1 in it.
C2_Witness ==
  /\ MaskJustMade
  /\ ~mask_id.none
  /\ \E i, j \in Positions : Num(MaskOnStack, i) = R(0) /\ Num(MaskOnStack, j) = R(1)

(***************************************************************************)
(* C3.  Every scalar metric built by MaskedScalar has an arity fixed by    *)
(* has_weights: it consumes 2 items (3 with weights) and leaves 1, the     *)
(* scalar; at every step the sub-layer finds its declared number of inputs *)
(* among the items of the run, and what lies below them is never touched.  *)
(***************************************************************************)
\* The items of the stack that belong to the run: all but what was below the arguments.
OwnItems == Len(stack) - Len(Below)

\* The run's items before each step up to WeightedMean, and after it.
Depths == IF has_weights THEN <<3, 4, 3, 2, 1>> ELSE <<2, 3, 2, 1>>

C3_FixedArity ==
  IsMaskedScalarRun =>
    /\ pc = 1 =>
         /\ n_in(Build(layer_name, mask_id, has_weights)) = (IF has_weights THEN 3 ELSE 2)
         /\ n_out(Build(layer_name, mask_id, has_weights)) = 1
    /\ Len(stack) >= Len(Below)
    /\ SubSeq(stack, OwnItems + 1, Len(stack)) = Below
    /\ Running => OwnItems >= n_in(program[pc])
    /\ pc <= AfterMean => OwnItems = Depths[pc]
    /\ Done => (OwnItems = 1 /\ stack[1].shape = <<>>)

\* A finished run with weights: three items taken, one scalar left on top of the bystander.
C3_Witness ==
  /\ IsMaskedScalarRun
  /\ has_weights
  /\ Done
  /\ Len(stack0) = 3 + Len(Below)
  /\ Len(stack) = 1 + Len(Below)

(***************************************************************************)
(* C4.  MaskedScalar(metric_layer, mask_id=m, has_weights=True): the       *)
(* weight of a position is its provided weight times its 0/1 mask, so the  *)
(* result is sum(metric * mask * weights) / sum(mask * weights), and a     *)
(* position whose target equals m contributes nothing whatever its         *)
(* provided weight is.                                                     *)
(***************************************************************************)
C4_Case ==
  /\ IsMaskedScalarRun
  /\ has_weights
  /\ pc = AfterMean

MaskAt(i) == IF IsMasked(i) THEN R(0) ELSE R(1)

C4_WeightTimesMask ==
  C4_Case =>
    LET metric == Metric0
        at     == [i \in Positions |-> Num(metric, Proj(i, metric.shape))]
        used   == [i \in Positions |-> RMul(MaskAt(i), Weights0.data[i])]
    IN  /\ ScalarOf(stack[1]) =
             RDiv(SumOver([i \in Positions |-> RMul(at[i], used[i])], Positions),
                  SumOver(used, Positions))
        /\ ScalarOf(stack[1]) =
             RDiv(SumOver([i \in Positions |-> RMul(at[i], Weights0.data[i])], Unmasked),
                  SumOver(Weights0.data, Unmasked))

\* A masked position with a non-zero weight beside an unmasked one with a non-zero weight.
C4_Witness ==
  /\ C4_Case
  /\ PerPosition
  /\ \E p \in Masked, q \in Unmasked :
       /\ Weights0.data[p] # R(0)
       /\ Weights0.data[q] # R(0)
       /\ MetricAt(p) # MetricAt(q)

(***************************************************************************)
(* C5.  CountWeights drops the inputs unread; without weights it returns   *)
(* the number of positions whose target differs from mask_id (all of them  *)
(* for None), with weights the sum of the provided weights over those      *)
(* positions; the result is the same for any other inputs.                 *)
(***************************************************************************)
IsCountRun == layer_name = "CountWeights"

C5_CountWeights ==
  IsCountRun =>
    /\ pc = 2 => stack = Tail(stack0)
    /\ Done =>
         /\ stack = <<stack[1]>> \o Below
         /\ stack[1].shape = <<>>
         /\ ~has_weights => ScalarOf(stack[1]) = R(Cardinality(Unmasked))
         /\ has_weights =>
              ScalarOf(stack[1]) = SumOver([i \in Positions |-> Weights0.data[i]], Unmasked)
         /\ \A other \in Predictions(layer_name, Targets0.shape[1]) :
              Apply(CountWeights(mask_id, has_weights), <<other>> \o Tail(Args0)) = <<stack[1]>>

\* A finished count with weights where a masked position has a non-zero weight.
C5_Witness ==
  /\ IsCountRun
  /\ Done
  /\ has_weights
  /\ Unmasked # {}
  /\ \E p \in Masked : Weights0.data[p] # R(0)

\* A finished count without weights that leaves some position out.
C5_WitnessNoWeights ==
  /\ IsCountRun
  /\ Done
  /\ ~has_weights
  /\ Masked # {}
  /\ Unmasked # {}

(***************************************************************************)
(* C6.  On every input and setting CrossEntropyLossScalar returns -1 times *)
(* what CrossEntropyScalar returns, NegLogPerplexityScalar returns what    *)
(* CrossEntropyScalar returns, and L2LossScalar returns what L2Scalar      *)
(* returns, sign unchanged.                                                *)
(***************************************************************************)
RNeg(a) == [num |-> -a.num, den |-> a.den]

C6_Case == Done /\ layer_name \in {"CrossEntropyLossScalar", "NegLogPerplexityScalar", "L2LossScalar"}

C6_LossVariants ==
  C6_Case =>
    LET ce == Apply(CrossEntropyScalar(mask_id, has_weights), Args0)
        l2 == Apply(L2Scalar(mask_id, has_weights), Args0)
    IN  /\ Len(stack) = 1 + Len(Below)
        /\ layer_name = "CrossEntropyLossScalar" =>
             /\ stack[1].shape = ce[1].shape
             /\ ScalarOf(stack[1]) = RNeg(ScalarOf(ce[1]))
        /\ layer_name = "NegLogPerplexityScalar" => stack[1] = ce[1]
        /\ layer_name = "L2LossScalar" => stack[1] = l2[1]

\* A finished cross-entropy loss that is not zero, so that the sign shows.
C6_Witness ==
  /\ Done
  /\ layer_name = "CrossEntropyLossScalar"
  /\ ScalarOf(stack[1]).den # 0
  /\ ScalarOf(stack[1]).num > 0

\* A finished L2 loss that is not zero.
C6_WitnessL2 ==
  /\ Done
  /\ layer_name = "L2LossScalar"
  /\ ScalarOf(stack[1]).den # 0
  /\ ScalarOf(stack[1]).num > 0

(***************************************************************************)
(* C7.  one_hot(x, n_categories) has one more axis than x, of size         *)
(* n_categories; for every element v of x with 0 <= v < n_categories the   *)
(* row has 1 at index v and 0 at every other index: exactly one 1, and the *)
(* row sums to 1.                                                          *)
(***************************************************************************)
\* CrossEntropy has run: one_hot(target, prediction.shape[-1]) was taken.
C7_Case == IsCrossEntropyRun /\ pc >= 3

InRange(v, n) == v.den = 1 /\ 0 <= v.num /\ v.num < n

C7_OneHot ==
  C7_Case =>
    LET n   == LastDim(Inputs0)
        x   == Targets0
        hot == one_hot(x, n)
        Row(i) == {Append(i, j) : j \in 0..(n - 1)}
    IN  /\ hot.shape = Append(x.shape, n)
        /\ DOMAIN hot.data = Indices(Append(x.shape, n))
        /\ \A i \in Positions :
             InRange(x.data[i], n) =>
               /\ \A j \in 0..(n - 1) :
                    hot.data[Append(i, j)] = (IF j = x.data[i].num THEN R(1) ELSE R(0))
               /\ Cardinality({e \in Row(i) : hot.data[e] = R(1)}) = 1
               /\ SumOver(hot.data, Row(i)) = R(1)

\* A run with two categories whose targets name both of them.
C7_Witness ==
  /\ C7_Case
  /\ LastDim(Inputs0) = 2
  /\ \E i, j \in Positions : Targets0.data[i] = R(0) /\ Targets0.data[j] = R(1)

\* A run with one category where some target is out of range and its row is all zero.
C7_WitnessOutOfRange ==
  /\ C7_Case
  /\ LastDim(Inputs0) = 1
  /\ \E i \in Positions :
       /\ ~InRange(Targets0.data[i], 1)
       /\ one_hot(Targets0, 1).data[Append(i, 0)] = R(0)

====
